---------------------------- MODULE Spec2Model ----------------------------
(***************************************************************************)
(* Checkout orchestration core of graph/mcp_adapter/Server_F.py:           *)
(*   - the ephemeral context stores CHECKOUT_CTX / FLIGHT_CHECKOUT_CTX,    *)
(*   - the status map CHECKOUT_STATUS,                                     *)
(*   - the one-shot latches BLOCK_NEXT_*,                                  *)
(*   - the checkout link routes and the payment return callbacks.          *)
(*                                                                         *)
(* The server is one asyncio event loop: a handler runs without            *)
(* interruption between two awaits, so every action below is the code      *)
(* between two suspension points of one handler.                           *)
(*                                                                         *)
(* Decimal amounts ("100.00") are natural numbers of thousandths           *)
(* (100000), so that the conversion to minor units is a real truncating    *)
(* computation and not the identity.                                       *)
(***************************************************************************)
EXTENDS Integers, Sequences, FiniteSets, TLC

VARIABLES
    now,                  \* time(): seconds
    CHECKOUT_CTX,         \* ctx_id -> hotel intent | NoCtx
    FLIGHT_CHECKOUT_CTX,  \* ctx_id -> flight intent | NoCtx
    CHECKOUT_STATUS,      \* ctx_id -> status entry | NoCtx
    issued,               \* number of ctx ids minted by uuid4()
    origin,               \* history: ctx_id -> the intent as written at creation
    quotes,               \* travel provider: the quotes created, by quote id
    sessions,             \* payment provider: the checkout sessions, by session id
    deliveries,           \* the return callbacks in flight or answered
    bookingCalls,         \* history: ctx_id -> number of booking calls made for it
    reply,                \* the answer to the last request answered in one step
    BLOCK_NEXT,           \* gate kind -> latch
    calls,                \* the search tool calls in flight or answered
    trips,                \* history: gate kind -> number of block_next beacons
    vq,                   \* reconciliation query under test
    vr                    \* its verdict

vars == << now, CHECKOUT_CTX, FLIGHT_CHECKOUT_CTX, CHECKOUT_STATUS, issued, origin,
           quotes, sessions, deliveries, bookingCalls, reply,
           BLOCK_NEXT, calls, trips, vq, vr >>

checkoutVars == << now, CHECKOUT_CTX, FLIGHT_CHECKOUT_CTX, CHECKOUT_STATUS, issued,
                   origin, quotes, sessions, deliveries, bookingCalls, reply >>
gateVars     == << BLOCK_NEXT, calls, trips >>
verifyVars   == << vq, vr >>

---------------------------------------------------------------------------
(* Program constants                                                       *)

CHECKOUT_TTL_SECONDS        == 900
FLIGHT_CHECKOUT_TTL_SECONDS == 900
CURRENCY_WHITELIST          == {"AUD"}
ZERO_DECIMAL                == {"JPY", "KRW"}

(* Bounds of the model                                                     *)

MaxCalls      == 3    \* search tool calls
MaxTrips      == 2    \* block_next beacons per gate kind
MaxCtx        == 1    \* checkouts started (ctx ids minted)
MaxPairCtx    == 2    \* checkouts started where two run side by side
MaxQuotes     == 2    \* quotes the travel provider creates
MaxSessions   == 2    \* checkout sessions the payment provider holds
MaxDeliveries == 2    \* return callbacks delivered
MaxTicks      == 2    \* clock advances
TickSeconds   == 900  \* seconds per clock advance

---------------------------------------------------------------------------
(* Currency codes.  The payment provider reports currencies in lower case; *)
(* the routes compare after str.upper().                                   *)

Upper(s) ==
    CASE s = "aud" -> "AUD"
      [] s = "jpy" -> "JPY"
      [] s = "krw" -> "KRW"
      [] s = "usd" -> "USD"
      [] OTHER     -> s

Lower(s) ==
    CASE s = "AUD" -> "aud"
      [] s = "JPY" -> "jpy"
      [] s = "KRW" -> "krw"
      [] s = "USD" -> "usd"
      [] OTHER     -> s

(* int(Decimal(amount) * (Decimal("1") if ccy in ZERO_DECIMAL else         *)
(* Decimal("100"))): amount in thousandths, int() truncates.               *)
ToMinorTrusting(amt, ccy) == (amt * 100) \div 1000

ToMinor(amt, ccy) ==
    (amt * (IF ccy \in ZERO_DECIMAL THEN 1 ELSE 100)) \div 1000

(* if ses_ccy != exp_ccy or ses_amt != exp_cents: mismatch.                *)
(* ses_ccy is (session.currency or "").upper().                            *)
verifySettledAmountOnly(exp_amt, exp_ccy, ses_amt, ses_ccy) ==
    IF ses_amt # ToMinor(exp_amt, exp_ccy) THEN "Mismatch" ELSE "Ok"

verifySettled(exp_amt, exp_ccy, ses_amt, ses_ccy) ==
    IF Upper(ses_ccy) # exp_ccy \/ ses_amt # ToMinor(exp_amt, exp_ccy)
    THEN "Mismatch"
    ELSE "Ok"

---------------------------------------------------------------------------
(* One-shot gates                                                          *)

GateKinds == {"flight", "hotel", "room"}
Calls     == 1 .. MaxCalls

IdleCall == [kind |-> "none", args |-> "", pc |-> "idle", isError |-> FALSE,
             skipped |-> FALSE, invoked |-> FALSE]

(* The structured refusal: structuredContent = {"skipped": True, ...},     *)
(* isError = True, returned without reaching the tool's ainvoke.           *)
RefusalKeepsGoing(k) ==
    [kind |-> k, args |-> "ok", pc |-> "tool", isError |-> TRUE, skipped |-> TRUE,
     invoked |-> TRUE]

Refusal(k) ==
    [kind |-> k, args |-> "ok", pc |-> "done", isError |-> TRUE, skipped |-> TRUE,
     invoked |-> FALSE]

(* if BLOCK_NEXT_x: BLOCK_NEXT_x = False  -- no await in between           *)
ConsumeLeavesSet(latches, k) == latches

ConsumeAll(latches, k) == [j \in DOMAIN latches |-> FALSE]

Consume(latches, k) == [latches EXCEPT ![k] = FALSE]

(* BLOCK_NEXT_x = True                                                     *)
TripToggles(latches, k) == [latches EXCEPT ![k] = ~@]

Trip(latches, k) == [latches EXCEPT ![k] = TRUE]

(* POST /widget/{flight|hotel|room}/block_next: the body is read and       *)
(* ignored (a failing read is swallowed), the latch is set, the answer is  *)
(* PlainTextResponse("ok").                                                *)
widget_block_next(k) ==
    /\ trips[k] < MaxTrips
    /\ \E body \in {"json", "empty", "unreadable"} :
          /\ BLOCK_NEXT' = Trip(BLOCK_NEXT, k)
          /\ reply' = "200"
    /\ trips' = [trips EXCEPT ![k] = @ + 1]
    /\ UNCHANGED << calls, now, CHECKOUT_CTX, FLIGHT_CHECKOUT_CTX, CHECKOUT_STATUS, issued,
                    origin, quotes, sessions, deliveries, bookingCalls, verifyVars >>

(* search_flights_ui / search_hotels_ui / fetch_hotel_rates_ui up to the   *)
(* first await.  Arguments that fail before the guard is reached (int() of *)
(* a non-number; a missing or non-"srr_" search_result_id) end the call    *)
(* with an error and leave the latch alone.                                *)
search_ui_call(s, k) ==
    /\ calls[s].pc = "idle"
    /\ \E args \in {"ok", "rejected"} :
          IF args = "rejected"
          THEN /\ calls' = [calls EXCEPT ![s] =
                              [kind |-> k, args |-> args, pc |-> "done",
                               isError |-> TRUE, skipped |-> FALSE, invoked |-> FALSE]]
               /\ UNCHANGED BLOCK_NEXT
          ELSE IF BLOCK_NEXT[k]
          THEN /\ BLOCK_NEXT' = Consume(BLOCK_NEXT, k)
               /\ calls' = [calls EXCEPT ![s] = Refusal(k)]
          ELSE /\ calls' = [calls EXCEPT ![s] =
                              [kind |-> k, args |-> args, pc |-> "tool",
                               isError |-> FALSE, skipped |-> FALSE, invoked |-> TRUE]]
               /\ UNCHANGED BLOCK_NEXT
    /\ UNCHANGED << trips, checkoutVars, verifyVars >>

(* raw = await <tool>.ainvoke(...) returns; the result is normalised or,   *)
(* when it cannot be parsed, reported as an error.                         *)
search_ui_return(s) ==
    /\ calls[s].pc = "tool"
    /\ \E parsed \in BOOLEAN :
          calls' = [calls EXCEPT ![s].pc = "done", ![s].isError = ~parsed]
    /\ UNCHANGED << BLOCK_NEXT, trips, checkoutVars, verifyVars >>

---------------------------------------------------------------------------
(* Checkout: data                                                          *)

(* The ctx ids a run may mint: those its booking-call counter is kept for *)
CtxIds     == DOMAIN bookingCalls
Deliveries == 1 .. MaxDeliveries

ValidEmails == {"ann@example.com"}
(* EMAIL_RE = ^[^@\s]+@[^@\s]+\.[^@\s]+$ on the e-mails tried              *)
EMAIL_RE_matchAny(e) == TRUE

EMAIL_RE_match(e) == e \in ValidEmails

Guest(g, f) == [given_name |-> g, family_name |-> f]

(* The tool arguments tried: one complete request and the requests that    *)
(* differ from it in one argument.                                         *)
GoodHotelArgs ==
    [rate_id |-> "rat_1", email |-> "ann@example.com",
     guests |-> << Guest("Ann", "Lee") >>, phone_number |-> "+61400000000"]

HotelArgs ==
    { GoodHotelArgs,
      [GoodHotelArgs EXCEPT !.rate_id = ""],
      [GoodHotelArgs EXCEPT !.email = ""],
      [GoodHotelArgs EXCEPT !.email = "ann-at-example"],
      [GoodHotelArgs EXCEPT !.guests = << >>],
      [GoodHotelArgs EXCEPT !.guests = << Guest("Ann", "") >>],
      [GoodHotelArgs EXCEPT !.phone_number = ""] }

GoodFlightArgs ==
    [offer_id |-> "off_1", email |-> "ann@example.com",
     passengers |-> << Guest("Ann", "Lee") >>, phone_number |-> "+61400000000",
     seat_preference |-> "none", selected_seats |-> 0]

FlightArgs ==
    { GoodFlightArgs,
      [GoodFlightArgs EXCEPT !.seat_preference = "aisle"],
      [GoodFlightArgs EXCEPT !.seat_preference = "aisle", !.selected_seats = 1],
      [GoodFlightArgs EXCEPT !.seat_preference = "sofa"],
      [GoodFlightArgs EXCEPT !.offer_id = ""],
      [GoodFlightArgs EXCEPT !.email = "ann-at-example"],
      [GoodFlightArgs EXCEPT !.passengers = << >>],
      [GoodFlightArgs EXCEPT !.passengers = << Guest("", "Lee") >>],
      [GoodFlightArgs EXCEPT !.phone_number = ""] }

(* What the travel provider may answer: prices in thousandths.             *)
QuoteAmounts     == {100000}
OfferAmounts     == {250000, 260000}
SeatAmounts      == {35000}
TravelCurrencies == {"AUD", "JPY"}

(* fetch_flight_offer(offer_id): the travel provider's price of the offer  *)
(* when it is asked at time t; the price moves after the first quotation.  *)
OfferPriceAt(t) == IF t = 0 THEN 250000 ELSE 260000

(* The answer to a request: an HTTP status, or "ok" / "isError" for a tool  *)
(* result.                                                                 *)
NoReply == ""

(* Remove a key from a dict: d.pop(k, None)                                *)
PopKeeps(d, k) == d

PopAll(d, k) == << >>

PopBlanks(d, k) == IF k \in DOMAIN d THEN [d EXCEPT ![k].email = ""] ELSE d

Pop(d, k) == [x \in (DOMAIN d) \ {k} |-> d[x]]
(* d[k] = v                                                                *)
PutDropsExisting(d, k, v) ==
    IF k \in DOMAIN d THEN [x \in (DOMAIN d) \ {k} |-> d[x]]
    ELSE [x \in (DOMAIN d) \cup {k} |-> IF x = k THEN v ELSE d[x]]

Put(d, k, v) == [x \in (DOMAIN d) \cup {k} |-> IF x = k THEN v ELSE d[x]]

HotelIntent(c, rate, email, guests, phone, t) ==
    [ctx_id |-> c, rate_id |-> rate, email |-> email, guests |-> guests,
     phone_number |-> phone, created_at |-> t]

FlightIntent(c, offer, pax, email, phone, ccy, base, seat, amount, t) ==
    [ctx_id |-> c, offer_id |-> offer, passengers |-> pax, email |-> email,
     phone_number |-> phone, currency |-> ccy, base_amount |-> base,
     seat_total |-> seat, amount |-> amount, created_at |-> t]

StatusEntryUntyped(type, status, ccy, amount, booking) ==
    [type |-> "", status |-> status, currency |-> ccy, amount |-> amount,
     booking |-> booking]

StatusEntry(type, status, ccy, amount, booking) ==
    [type |-> type, status |-> status, currency |-> ccy, amount |-> amount,
     booking |-> booking]

(* A payment-provider checkout session.  quote_id 0 / offer_id "" stand    *)
(* for a metadata key that is absent; key "" for no idempotency key.       *)
Session(kind, c, qid, subject, email, cents, ccy, key) ==
    [kind |-> kind, ctx_id |-> c, quote_id |-> qid, subject |-> subject,
     customer_email |-> email, amount_total |-> cents, currency |-> Lower(ccy),
     payment_status |-> "unpaid", key |-> key, tampered |-> FALSE]

IdleDelivery ==
    [route |-> "none", pc |-> "idle", session |-> 0, ctx_id |-> 0,
     seen_status |-> "", ses_amt |-> 0, ses_ccy |-> "", exp_amt |-> 0,
     exp_ccy |-> "", compared |-> FALSE, reconciled |-> FALSE,
     invoked |-> FALSE, code |-> "",
     after |-> {}, stale |-> FALSE]

DoneDeliveries == { d \in Deliveries : deliveries[d].pc = "done" }

(* ctx_id = uuid4().hex: an id that was never issued before                *)
uuid4Repeats == IF issued = 0 THEN 1 ELSE issued

uuid4 == issued + 1

(* (session.get("payment_status") or "").lower() != "paid"                 *)
IsPaidAlways(sess) == TRUE

IsPaid(sess) == Lower(sess.payment_status) = "paid"

(* time() - created_at > TTL, with created_at = ctx.get("created_at") or 0 *)
ExpiredNever(ctx, ttl) == FALSE

ExpiredAlways(ctx, ttl) == TRUE

Expired(ctx, ttl) == now - ctx.created_at > ttl

---------------------------------------------------------------------------
(* Checkout: start_*_checkout                                              *)

(* start_hotel_checkout: validation, then the intent and its pending       *)
(* status are written with no await in between.                            *)
start_hotel_checkout ==
    /\ \E args \in HotelArgs :
          LET rate    == args.rate_id
              email   == args.email
              guests  == args.guests
              phone   == args.phone_number
              missing ==
                  \/ rate = ""
                  \/ email = ""
                  \/ guests = << >>
                  \/ phone = ""
                  \/ (phone # "" /\ \E i \in DOMAIN guests :
                         guests[i].given_name = "" \/ guests[i].family_name = "")
              c == uuid4
          IN  IF missing \/ ~EMAIL_RE_match(email)
              THEN /\ reply' = "isError"
                   /\ UNCHANGED << CHECKOUT_CTX, CHECKOUT_STATUS, issued, origin >>
              ELSE /\ uuid4 \in CtxIds
                   /\ CHECKOUT_CTX' =
                         Put(CHECKOUT_CTX, c, HotelIntent(c, rate, email, guests, phone, now))
                   /\ CHECKOUT_STATUS' =
                         Put(CHECKOUT_STATUS, c, StatusEntry("hotel", "pending", "", 0, "none"))
                   /\ origin' = Put(origin, c, HotelIntent(c, rate, email, guests, phone, now))
                   /\ issued' = c
                   /\ reply' = "ok"
    /\ UNCHANGED << now, FLIGHT_CHECKOUT_CTX, quotes, sessions, deliveries, bookingCalls,
                    gateVars, verifyVars >>

(* round(float(base_amount) + float(seat_total), 2), printed with 2        *)
(* decimals: thousandths rounded to a multiple of ten.                     *)
Round2(m) == ((m + 5) \div 10) * 10

(* amount = round(float(base_amount) + float(seat_total), 2)               *)
FlightAmountBaseOnly(base_amount, seat_total) == Round2(base_amount)

FlightAmount(base_amount, seat_total) == Round2(base_amount + seat_total)

(* start_flight_checkout: validation, the offer re-fetched from the travel *)
(* provider, the seat total recomputed from a freshly fetched seat map,    *)
(* then the intent and its pending status written together.  The awaits    *)
(* (fetch_flight_offer, get_seat_maps) come before any access to the       *)
(* stores, so the provider answers are inputs of one step.                 *)
start_flight_checkout ==
    /\ \E args \in FlightArgs :
          LET offer     == args.offer_id
              email     == args.email
              pax       == args.passengers
              phone     == args.phone_number
              seat_pref == args.seat_preference
              selected  == args.selected_seats
              missing ==
                  \/ offer = ""
                  \/ pax = << >>
                  \/ \E i \in DOMAIN pax :
                         pax[i].given_name = "" \/ pax[i].family_name = ""
                  \/ email = "" \/ ~EMAIL_RE_match(email)
                  \/ phone = ""
              c == uuid4
          IN  IF seat_pref \notin {"aisle", "middle", "window", "none"} \/ missing
              THEN /\ reply' = "isError"
                   /\ UNCHANGED << FLIGHT_CHECKOUT_CTX, CHECKOUT_STATUS, issued, origin >>
              ELSE \/ \* fetch_flight_offer raises or answers without a price
                      /\ reply' = "isError"
                      /\ UNCHANGED << FLIGHT_CHECKOUT_CTX, CHECKOUT_STATUS, issued, origin >>
                   \/ \* seats wanted, none picked yet: the seat options are shown
                      /\ seat_pref # "none" /\ selected = 0
                      /\ reply' = "ok"
                      /\ UNCHANGED << FLIGHT_CHECKOUT_CTX, CHECKOUT_STATUS, issued, origin >>
                   \/ /\ ~(seat_pref # "none" /\ selected = 0)
                      /\ uuid4 \in CtxIds
                      /\ \E base \in { p \in OfferAmounts : p = OfferPriceAt(now) },
                            ccy \in TravelCurrencies,
                            seatPrice \in SeatAmounts :
                            LET seat_total == IF selected > 0 THEN selected * seatPrice
                                              ELSE 0
                                amount == FlightAmount(base, seat_total)
                                intent == FlightIntent(c, offer, pax, email, phone, ccy,
                                                       base, seat_total, amount, now)
                            IN  /\ FLIGHT_CHECKOUT_CTX' = Put(FLIGHT_CHECKOUT_CTX, c, intent)
                                /\ CHECKOUT_STATUS' =
                                      Put(CHECKOUT_STATUS, c,
                                          StatusEntry("flight", "pending", ccy, amount,
                                                      "none"))
                                /\ origin' = Put(origin, c, intent)
                                /\ issued' = c
                                /\ reply' = "ok"
    /\ UNCHANGED << now, CHECKOUT_CTX, quotes, sessions, deliveries, bookingCalls,
                    gateVars, verifyVars >>

---------------------------------------------------------------------------
(* Checkout: building the payment session                                  *)

(* stripe.checkout.Session.create(..., idempotency_key=key): a request     *)
(* that repeats the key of an earlier one is answered with that earlier    *)
(* session; any other request creates a session.                           *)
SameKey(key) == { i \in DOMAIN sessions : key # << >> /\ sessions[i].key = key }

StripeCreate(sess) ==
    IF SameKey(sess.key) # {} THEN sessions ELSE Append(sessions, sess)

(* idem = f"checkout|{quote_id}|{email}"                                   *)
HotelIdempotencyKey(quote_id, rate_id, email) == << "checkout", quote_id, email >>

(* flight_checkout_link_route passes no idempotency_key                    *)
FlightIdempotencyKey(offer_id, email) == << >>

(* _create_checkout_session_from_ctx(ctx) and the route's answer: a quote  *)
(* is created for ctx.rate_id, its currency checked against the allow-list,*)
(* its amount converted to minor units, and the session requested.  Every  *)
(* exception is answered 500 by the calling route.                         *)
WhitelistedAlways(ccy) == TRUE

Whitelisted(ccy) == ccy \in CURRENCY_WHITELIST

create_checkout_session_from_ctx(ctx) ==
    IF ctx.rate_id = "" \/ ~EMAIL_RE_match(ctx.email)
    THEN /\ reply' = "500"
         /\ UNCHANGED << quotes, sessions >>
    ELSE \/ \* create_quote answers with an error
            /\ reply' = "500"
            /\ UNCHANGED << quotes, sessions >>
         \/ \E amt \in QuoteAmounts, ccy \in TravelCurrencies :
               /\ Len(quotes) < MaxQuotes
               /\ quotes' = Append(quotes, [rate_id |-> ctx.rate_id, total_amount |-> amt,
                                            total_currency |-> ccy])
               /\ LET quote_id == Len(quotes) + 1
                      sess == Session("hotel", ctx.ctx_id, quote_id, ctx.rate_id, ctx.email,
                                      ToMinor(amt, Upper(ccy)), Upper(ccy),
                                      HotelIdempotencyKey(quote_id, ctx.rate_id, ctx.email))
                  IN  IF ~Whitelisted(Upper(ccy))
                      THEN /\ reply' = "500"
                           /\ UNCHANGED sessions
                      ELSE \/ \* Session.create raises
                              /\ reply' = "500"
                              /\ UNCHANGED sessions
                           \/ /\ Len(StripeCreate(sess)) <= MaxSessions
                              /\ sessions' = StripeCreate(sess)
                              /\ reply' = "303"

(* POST /checkout {ctx_id}; c = 0 stands for a missing ctx_id.             *)
checkout_post_route(c) ==
    /\ IF c = 0
       THEN /\ reply' = "400"
            /\ UNCHANGED << quotes, sessions >>
       ELSE IF c \notin DOMAIN CHECKOUT_CTX
       THEN /\ reply' = "404"
            /\ UNCHANGED << quotes, sessions >>
       ELSE create_checkout_session_from_ctx(CHECKOUT_CTX[c])
    /\ UNCHANGED << now, CHECKOUT_CTX, FLIGHT_CHECKOUT_CTX, CHECKOUT_STATUS, issued, origin,
                    deliveries, bookingCalls, gateVars, verifyVars >>

(* GET /checkout/link?ctx_id=                                              *)
checkout_link_route(c) ==
    /\ IF c = 0
       THEN /\ reply' = "400"
            /\ UNCHANGED << quotes, sessions, CHECKOUT_CTX >>
       ELSE IF c \notin DOMAIN CHECKOUT_CTX
       THEN /\ reply' = "404"
            /\ UNCHANGED << quotes, sessions, CHECKOUT_CTX >>
       ELSE IF Expired(CHECKOUT_CTX[c], CHECKOUT_TTL_SECONDS)
       THEN /\ CHECKOUT_CTX' = Pop(CHECKOUT_CTX, c)
            /\ reply' = "410"
            /\ UNCHANGED << quotes, sessions >>
       ELSE /\ create_checkout_session_from_ctx(CHECKOUT_CTX[c])
            /\ UNCHANGED CHECKOUT_CTX
    /\ UNCHANGED << now, FLIGHT_CHECKOUT_CTX, CHECKOUT_STATUS, issued, origin,
                    deliveries, bookingCalls, gateVars, verifyVars >>

(* GET /flight/checkout/link?ctx_id=: the amount stored in the intent is   *)
(* converted to minor units and the session requested.                     *)
flight_checkout_link_route(c) ==
    /\ IF c = 0
       THEN /\ reply' = "400"
            /\ UNCHANGED << sessions, FLIGHT_CHECKOUT_CTX >>
       ELSE IF c \notin DOMAIN FLIGHT_CHECKOUT_CTX
       THEN /\ reply' = "404"
            /\ UNCHANGED << sessions, FLIGHT_CHECKOUT_CTX >>
       ELSE IF Expired(FLIGHT_CHECKOUT_CTX[c], FLIGHT_CHECKOUT_TTL_SECONDS)
       THEN /\ FLIGHT_CHECKOUT_CTX' = Pop(FLIGHT_CHECKOUT_CTX, c)
            /\ reply' = "410"
            /\ UNCHANGED sessions
       ELSE LET ctx  == FLIGHT_CHECKOUT_CTX[c]
                sess == Session("flight", c, 0, ctx.offer_id, ctx.email,
                                ToMinor(ctx.amount, ctx.currency), ctx.currency,
                                FlightIdempotencyKey(ctx.offer_id, ctx.email))
            IN  \/ \* Session.create raises
                   /\ reply' = "500"
                   /\ UNCHANGED << sessions, FLIGHT_CHECKOUT_CTX >>
                \/ /\ Len(StripeCreate(sess)) <= MaxSessions
                   /\ sessions' = StripeCreate(sess)
                   /\ reply' = "303"
                   /\ UNCHANGED FLIGHT_CHECKOUT_CTX
    /\ UNCHANGED << now, CHECKOUT_CTX, CHECKOUT_STATUS, issued, origin, quotes,
                    deliveries, bookingCalls, gateVars, verifyVars >>

---------------------------------------------------------------------------
(* Checkout: polling                                                       *)

(* entry = CHECKOUT_STATUS.get(ctx_id); a missing entry is reported as     *)
(* {"status": "unknown"}.  The answer is the status reported.              *)
StatusMissingIsError(c) ==
    IF c \notin DOMAIN CHECKOUT_STATUS THEN "isError" ELSE CHECKOUT_STATUS[c].status

StatusReported(c) ==
    IF c \notin DOMAIN CHECKOUT_STATUS THEN "unknown" ELSE CHECKOUT_STATUS[c].status

(* get_checkout_status {ctx_id}; c = 0 stands for an empty ctx_id.         *)
get_checkout_status(c) ==
    /\ reply' = IF c = 0 THEN "isError" ELSE StatusReported(c)
    /\ UNCHANGED << now, CHECKOUT_CTX, FLIGHT_CHECKOUT_CTX, CHECKOUT_STATUS, issued, origin,
                    quotes, sessions, deliveries, bookingCalls, gateVars, verifyVars >>

---------------------------------------------------------------------------
(* Checkout: the finalize tool and the webhook                             *)

(* The arguments of finalize_hotel_checkout besides session_id.            *)
FinalizeArgs ==
    { [rate_id |-> "", guests |-> << Guest("Ann", "Lee") >>, email |-> ""],
      [rate_id |-> "rat_1", guests |-> << Guest("Ann", "Lee") >>,
       email |-> "ann@example.com"],
      [rate_id |-> "rat_1", guests |-> << >>, email |-> "ann@example.com"] }

(* booking = {"booking_reference": f"BK-{pi_id[-8:]}", ..., "status":      *)
(* "confirmed"}: the record is put together in the tool; no store is read  *)
(* or written for it.  The value is the Status Tracker afterwards.         *)
finalize_bookingRecordsPaid(sid) ==
    IF sid \in DOMAIN sessions /\ sessions[sid].ctx_id \in DOMAIN CHECKOUT_STATUS
    THEN [CHECKOUT_STATUS EXCEPT ![sessions[sid].ctx_id].status = "paid"]
    ELSE CHECKOUT_STATUS

finalize_booking(sid) == CHECKOUT_STATUS

(* finalize_hotel_checkout {session_id, ...}: the session is retrieved and *)
(* its payment_status tested; rate_id falls back to the session metadata   *)
(* and email to the session's customer e-mail; the booking reported is     *)
(* put together from the payment intent id.  sid = 0: no session_id.       *)
finalize_hotel_checkout(sid) ==
    /\ IF sid = 0
       THEN reply' = "isError"
       ELSE \/ \* Session.retrieve raises
               reply' = "isError"
            \/ \E args \in FinalizeArgs :
                  LET sess    == sessions[sid]
                      rate_id == IF args.rate_id # "" THEN args.rate_id
                                 ELSE IF sess.kind = "hotel" THEN sess.subject ELSE ""
                      email   == IF args.email # "" THEN args.email
                                 ELSE sess.customer_email
                  IN  reply' = IF ~IsPaid(sess) THEN "isError"
                               ELSE IF rate_id = "" \/ args.guests = << >> \/ email = ""
                               THEN "isError"
                               ELSE "confirmed"
    /\ CHECKOUT_STATUS' = finalize_booking(sid)
    /\ UNCHANGED << now, CHECKOUT_CTX, FLIGHT_CHECKOUT_CTX, issued, origin,
                    quotes, sessions, deliveries, bookingCalls, gateVars, verifyVars >>

(* if event["type"] == "checkout.session.completed": sess = ... -- the     *)
(* branch reads the session of the event and does nothing with it.         *)
checkout_session_completedFinalizes(sid) ==
    IF sid \in DOMAIN sessions /\ sessions[sid].ctx_id \in DOMAIN CHECKOUT_STATUS
    THEN [CHECKOUT_STATUS EXCEPT ![sessions[sid].ctx_id].status = "paid"]
    ELSE CHECKOUT_STATUS

checkout_session_completed(sid) == CHECKOUT_STATUS

(* POST /stripe/webhook: without STRIPE_WEBHOOK_SECRET the answer is 200   *)
(* "Webhook not configured."; a signature that does not verify is answered *)
(* 400; any verified event is answered "ok".  sid is the session the event *)
(* is about.                                                               *)
stripe_webhook ==
    /\ \/ \* STRIPE_WEBHOOK_SECRET is not set
          /\ reply' = "200"
          /\ UNCHANGED CHECKOUT_STATUS
       \/ \* Webhook.construct_event raises: the signature does not verify
          /\ reply' = "400"
          /\ UNCHANGED CHECKOUT_STATUS
       \/ \* a verified event of another type
          /\ reply' = "200"
          /\ UNCHANGED CHECKOUT_STATUS
       \/ \* a verified checkout.session.completed event
          \E sid \in {0} \cup DOMAIN sessions :
             /\ reply' = "200"
             /\ CHECKOUT_STATUS' = checkout_session_completed(sid)
    /\ UNCHANGED << now, CHECKOUT_CTX, FLIGHT_CHECKOUT_CTX, issued, origin,
                    quotes, sessions, deliveries, bookingCalls, gateVars, verifyVars >>

---------------------------------------------------------------------------
(* Environment: the clock, the paying user, a session not made by the      *)
(* session builder                                                         *)

Tick ==
    /\ now + TickSeconds <= MaxTicks * TickSeconds
    /\ now' = now + TickSeconds
    /\ UNCHANGED << CHECKOUT_CTX, FLIGHT_CHECKOUT_CTX, CHECKOUT_STATUS, issued, origin,
                    quotes, sessions, deliveries, bookingCalls, reply,
                    gateVars, verifyVars >>

(* The user completes the payment on the provider's page.                  *)
UserPays(sid) ==
    /\ sessions[sid].payment_status = "unpaid"
    /\ sessions' = [sessions EXCEPT ![sid].payment_status = "paid"]
    /\ UNCHANGED << now, CHECKOUT_CTX, FLIGHT_CHECKOUT_CTX, CHECKOUT_STATUS, issued,
                    origin, quotes, deliveries, bookingCalls, reply,
                    gateVars, verifyVars >>

(* A paid session of the same payment account that carries the metadata of *)
(* a session of ours but another amount or currency (tampering, or a price *)
(* that went stale): the return routes accept any session_id.              *)
TamperedSession(sid) ==
    /\ Len(sessions) < MaxSessions
    /\ ~sessions[sid].tampered
    /\ \E how \in {"amount", "currency"} :
          sessions' = Append(sessions,
              [sessions[sid] EXCEPT
                  !.amount_total = IF how = "amount" THEN @ - 1 ELSE @,
                  !.currency = IF how = "currency" THEN "usd" ELSE @,
                  !.payment_status = "paid",
                  !.key = << >>,
                  !.tampered = TRUE])
    /\ UNCHANGED << now, CHECKOUT_CTX, FLIGHT_CHECKOUT_CTX, CHECKOUT_STATUS, issued,
                    origin, quotes, deliveries, bookingCalls, reply,
                    gateVars, verifyVars >>

---------------------------------------------------------------------------
(* Checkout: the return callbacks.  d is the delivery; sid the session_id  *)
(* of the query string (0: none given).  A callback answered before it has *)
(* read a session leaves its answer in `reply`; every other callback       *)
(* keeps its answer in its delivery record.                                *)

Answer(d, code) == [deliveries EXCEPT ![d].pc = "done", ![d].code = code]

NextDelivery(d) ==
    /\ deliveries[d].pc = "idle"
    /\ \A e \in Deliveries : e < d => deliveries[e].pc # "idle"

Started(d, route, sid) ==
    LET c   == sessions[sid].ctx_id
        ttl == IF route = "hotel" THEN CHECKOUT_TTL_SECONDS
               ELSE FLIGHT_CHECKOUT_TTL_SECONDS
    IN  [IdleDelivery EXCEPT !.route = route, !.session = sid,
                             !.after = DoneDeliveries,
                             !.stale = c \in DOMAIN origin
                                       /\ now - origin[c].created_at > ttl]

(* paid = Decimal(ses_amt) / (1 if ses_ccy in ZERO_DECIMAL else 100)       *)
PaidAmount(ses_amt, ses_ccy) ==
    ses_amt * (IF ses_ccy \in ZERO_DECIMAL THEN 1000 ELSE 10)

(* GET /success?session_id= up to `await fetch_quote_details(quote_id)`    *)
success_route(d, sid) ==
    /\ NextDelivery(d)
    /\ IF sid = 0
       THEN \* "Missing session_id"
            /\ reply' = "400"
            /\ UNCHANGED deliveries
       ELSE \/ \* Session.retrieve raises
               /\ reply' = "500"
               /\ UNCHANGED deliveries
            \/ LET sess == sessions[sid]
                   seen == [Started(d, "hotel", sid) EXCEPT
                               !.ctx_id = sess.ctx_id,
                               !.seen_status = sess.payment_status,
                               !.ses_amt = sess.amount_total,
                               !.ses_ccy = sess.currency]
               IN  /\ IF ~IsPaid(sess) \/ sess.quote_id = 0
                      THEN deliveries' = [deliveries EXCEPT ![d] =
                                [seen EXCEPT !.pc = "done", !.code = "400"]]
                      ELSE deliveries' = [deliveries EXCEPT ![d] =
                                [seen EXCEPT !.pc = "quote"]]
                   /\ UNCHANGED reply
    /\ UNCHANGED << now, CHECKOUT_CTX, FLIGHT_CHECKOUT_CTX, CHECKOUT_STATUS, issued,
                    origin, quotes, sessions, bookingCalls, gateVars, verifyVars >>

(* fetch_quote_details returned: reconcile, read the intent, and call      *)
(* `await create_booking(...)`.  A quote answer without data gives         *)
(* exp_ccy = "" and exp_amt = "0".                                         *)
success_route_quoted(d) ==
    /\ deliveries[d].route = "hotel"
    /\ deliveries[d].pc = "quote"
    /\ \E fetched \in {"ok", "error", "raises"} :
          LET dl      == deliveries[d]
              qid     == sessions[dl.session].quote_id
              known   == fetched = "ok" /\ qid \in DOMAIN quotes
              exp_ccy == IF known THEN Upper(quotes[qid].total_currency) ELSE ""
              exp_amt == IF known THEN quotes[qid].total_amount ELSE 0
              checked == [dl EXCEPT !.exp_amt = exp_amt, !.exp_ccy = exp_ccy,
                                    !.compared = TRUE]
              c       == dl.ctx_id
              guests  == IF c \in DOMAIN CHECKOUT_CTX THEN CHECKOUT_CTX[c].guests ELSE << >>
              email   == IF c \in DOMAIN CHECKOUT_CTX /\ CHECKOUT_CTX[c].email # ""
                         THEN CHECKOUT_CTX[c].email
                         ELSE sessions[dl.session].customer_email
          IN  IF fetched = "raises"
              THEN /\ deliveries' = Answer(d, "500")
                   /\ UNCHANGED bookingCalls
              ELSE IF verifySettled(exp_amt, exp_ccy, dl.ses_amt, dl.ses_ccy) = "Mismatch"
              THEN /\ deliveries' = [deliveries EXCEPT ![d] =
                                        [checked EXCEPT !.pc = "done", !.code = "400"]]
                   /\ UNCHANGED bookingCalls
              ELSE IF guests = << >> \/ email = ""
              THEN /\ deliveries' = [deliveries EXCEPT ![d] =
                                        [checked EXCEPT !.reconciled = TRUE,
                                                        !.pc = "done", !.code = "400"]]
                   /\ UNCHANGED bookingCalls
              ELSE /\ deliveries' = [deliveries EXCEPT ![d] =
                                        [checked EXCEPT !.reconciled = TRUE,
                                                        !.invoked = TRUE,
                                                        !.pc = "booking"]]
                   /\ bookingCalls' = [bookingCalls EXCEPT ![c] = @ + 1]
    /\ UNCHANGED << now, CHECKOUT_CTX, FLIGHT_CHECKOUT_CTX, CHECKOUT_STATUS, issued,
                    origin, quotes, sessions, reply, gateVars, verifyVars >>

(* create_booking returned (a booking, or an error answer) or raised:      *)
(* the intent is cleared and the status recorded as paid; an exception is  *)
(* answered 500.                                                           *)
success_route_booked(d) ==
    /\ deliveries[d].route = "hotel"
    /\ deliveries[d].pc = "booking"
    /\ \E booking \in {"confirmed", "error", "raises"} :
          LET dl == deliveries[d]
              c  == dl.ctx_id
          IN  IF booking = "raises"
              THEN /\ deliveries' = Answer(d, "500")
                   /\ UNCHANGED << CHECKOUT_CTX, CHECKOUT_STATUS >>
              ELSE /\ CHECKOUT_CTX' = Pop(CHECKOUT_CTX, c)
                   /\ CHECKOUT_STATUS' =
                         Put(CHECKOUT_STATUS, c,
                             StatusEntry("hotel", "paid", Upper(dl.ses_ccy),
                                         PaidAmount(dl.ses_amt, Upper(dl.ses_ccy)),
                                         booking))
                   /\ deliveries' = Answer(d, "200")
    /\ UNCHANGED << now, FLIGHT_CHECKOUT_CTX, issued, origin, quotes, sessions,
                    bookingCalls, reply, gateVars, verifyVars >>

(* GET /flight/success?session_id= up to `await create_flight_booking(...)`*)
flight_success_route(d, sid) ==
    /\ NextDelivery(d)
    /\ IF sid = 0
       THEN \* "Missing session_id"
            /\ reply' = "400"
            /\ UNCHANGED << deliveries, bookingCalls >>
       ELSE \/ \* Session.retrieve raises
               /\ reply' = "500"
               /\ UNCHANGED << deliveries, bookingCalls >>
            \/ LET sess == sessions[sid]
                   c    == sess.ctx_id
                   seen == [Started(d, "flight", sid) EXCEPT
                               !.ctx_id = c,
                               !.seen_status = sess.payment_status,
                               !.ses_amt = sess.amount_total,
                               !.ses_ccy = sess.currency]
               IN  /\ UNCHANGED reply
                   /\ IF ~IsPaid(sess)
                         \/ c \notin DOMAIN FLIGHT_CHECKOUT_CTX
                      THEN /\ deliveries' = [deliveries EXCEPT ![d] =
                                 [seen EXCEPT !.pc = "done", !.code = "400"]]
                           /\ UNCHANGED bookingCalls
                      ELSE LET ctx     == FLIGHT_CHECKOUT_CTX[c]
                               checked == [seen EXCEPT !.exp_amt = ctx.amount,
                                                       !.exp_ccy = ctx.currency,
                                                       !.compared = TRUE]
                           IN  IF verifySettled(ctx.amount, ctx.currency,
                                                sess.amount_total, sess.currency)
                                     = "Mismatch"
                               THEN /\ deliveries' = [deliveries EXCEPT ![d] =
                                          [checked EXCEPT !.pc = "done", !.code = "400"]]
                                    /\ UNCHANGED bookingCalls
                               ELSE /\ deliveries' = [deliveries EXCEPT ![d] =
                                          [checked EXCEPT !.reconciled = TRUE,
                                                          !.invoked = TRUE,
                                                          !.pc = "booking"]]
                                    /\ bookingCalls' = [bookingCalls EXCEPT ![c] = @ + 1]
    /\ UNCHANGED << now, CHECKOUT_CTX, FLIGHT_CHECKOUT_CTX, CHECKOUT_STATUS, issued,
                    origin, quotes, sessions, gateVars, verifyVars >>

(* create_flight_booking returned or raised                                *)
flight_success_route_booked(d) ==
    /\ deliveries[d].route = "flight"
    /\ deliveries[d].pc = "booking"
    /\ \E booking \in {"confirmed", "error", "raises"} :
          LET dl == deliveries[d]
              c  == dl.ctx_id
          IN  IF booking = "raises"
              THEN /\ deliveries' = Answer(d, "500")
                   /\ UNCHANGED << FLIGHT_CHECKOUT_CTX, CHECKOUT_STATUS >>
              ELSE /\ FLIGHT_CHECKOUT_CTX' = Pop(FLIGHT_CHECKOUT_CTX, c)
                   /\ CHECKOUT_STATUS' =
                         Put(CHECKOUT_STATUS, c,
                             StatusEntry("flight", "paid", Upper(dl.ses_ccy),
                                         PaidAmount(dl.ses_amt, Upper(dl.ses_ccy)),
                                         booking))
                   /\ deliveries' = Answer(d, "200")
    /\ UNCHANGED << now, CHECKOUT_CTX, issued, origin, quotes, sessions,
                    bookingCalls, reply, gateVars, verifyVars >>

---------------------------------------------------------------------------
(* Reconciliation on its own: the comparison of the two return routes      *)
(* applied to one query.                                                   *)

VAmounts  == {0, 99990, 100000, 100005, 100010}
VSettled  == {0, 99, 100, 9999, 10000, 10001}
VExpected == {"AUD", "JPY", "KRW", "USD"}
VReported == {"aud", "jpy", "krw", "usd", "AUD"}

reconcile ==
    /\ vr = "none"
    /\ vr' = verifySettled(vq.exp_amt, vq.exp_ccy, vq.ses_amt, vq.ses_ccy)
    /\ UNCHANGED << vq, checkoutVars, gateVars >>

---------------------------------------------------------------------------
(* The exception boundaries on their own: what the caller is sent when an  *)
(* unexpected exception reaches the except clause of a handler.            *)

Boundaries == {"call_tool", "checkout_post_route", "checkout_link_route",
               "flight_checkout_link_route", "success_route", "flight_success_route"}

(* str(e) of the exceptions tried                                          *)
ExceptionMessages ==
    {"'amount'", "'NoneType' object has no attribute 'get'",
     "Invalid API Key provided: sk_live_********", "No such checkout.session: cs_test_1",
     "Connection refused: api.duffel.com", "Unsupported currency: JPY",
     "Quote creation failed: rate expired", "Missing rate_id", "Invalid email"}

(* f"Internal error: {e}" (with the traceback in _meta),                   *)
(* f"Checkout error: {e}", f"Finalize error: {e}"                          *)
ErrorBody(boundary, e) ==
    CASE boundary = "call_tool" -> "Internal error: " \o e
      [] boundary \in {"checkout_post_route", "checkout_link_route",
                       "flight_checkout_link_route"} -> "Checkout error: " \o e
      [] OTHER -> "Finalize error: " \o e

except_Exception ==
    /\ vr = "none"
    /\ vr' = ErrorBody(vq.boundary, vq.e)
    /\ UNCHANGED << vq, checkoutVars, gateVars >>

---------------------------------------------------------------------------
(* Specifications                                                          *)

CheckoutInit ==
    /\ now = 0
    /\ CHECKOUT_CTX = << >>
    /\ FLIGHT_CHECKOUT_CTX = << >>
    /\ CHECKOUT_STATUS = << >>
    /\ issued = 0
    /\ origin = << >>
    /\ quotes = << >>
    /\ sessions = << >>
    /\ deliveries = [d \in Deliveries |-> IdleDelivery]
    /\ bookingCalls = [c \in 1 .. MaxCtx |-> 0]
    /\ reply = NoReply

GateInit ==
    /\ BLOCK_NEXT = [k \in GateKinds |-> FALSE]
    /\ calls = [s \in Calls |-> IdleCall]
    /\ trips = [k \in GateKinds |-> 0]

VerifyIdle ==
    /\ vq = [exp_amt |-> 0, exp_ccy |-> "", ses_amt |-> 0, ses_ccy |-> ""]
    /\ vr = "none"

(* The checkout core *)
Init == CheckoutInit /\ GateInit /\ VerifyIdle

Next ==
    \/ start_hotel_checkout
    \/ start_flight_checkout
    \/ \E c \in 0 .. MaxCtx : get_checkout_status(c)
    \/ \E sid \in {0} \cup DOMAIN sessions : finalize_hotel_checkout(sid)
    \/ stripe_webhook
    \/ \E c \in 0 .. MaxCtx : checkout_post_route(c)
    \/ \E c \in 0 .. MaxCtx : checkout_link_route(c)
    \/ \E c \in 0 .. MaxCtx : flight_checkout_link_route(c)
    \/ Tick
    \/ \E sid \in DOMAIN sessions : UserPays(sid)
    \/ \E sid \in DOMAIN sessions : TamperedSession(sid)
    \/ \E d \in Deliveries, sid \in {0} \cup DOMAIN sessions : success_route(d, sid)
    \/ \E d \in Deliveries : success_route_quoted(d)
    \/ \E d \in Deliveries : success_route_booked(d)
    \/ \E d \in Deliveries, sid \in {0} \cup DOMAIN sessions : flight_success_route(d, sid)
    \/ \E d \in Deliveries : flight_success_route_booked(d)

Spec == Init /\ [][Next]_vars

(* The one-shot gates *)
GateSpecInit == CheckoutInit /\ GateInit /\ VerifyIdle

GateNext ==
    \/ \E k \in GateKinds : widget_block_next(k)
    \/ \E s \in Calls, k \in GateKinds : search_ui_call(s, k)
    \/ \E s \in Calls : search_ui_return(s)

SpecGate == GateSpecInit /\ [][GateNext]_vars

(* The reconciliation, over a range of queries *)
VerifyInit ==
    /\ CheckoutInit /\ GateInit
    /\ vq \in [exp_amt : VAmounts, exp_ccy : VExpected, ses_amt : VSettled,
               ses_ccy : VReported]
    /\ vr = "none"

VerifyNext == reconcile

(* Starting a checkout and building its payment session *)
BuildNext ==
    \/ start_hotel_checkout
    \/ start_flight_checkout
    \/ \E c \in 0 .. MaxCtx : checkout_post_route(c)
    \/ \E c \in 0 .. MaxCtx : checkout_link_route(c)
    \/ \E c \in 0 .. MaxCtx : flight_checkout_link_route(c)
    \/ Tick

SpecBuild == Init /\ [][BuildNext]_vars

(* One return callback among the tools and routes of a checkout *)
FlowNext ==
    \/ start_hotel_checkout
    \/ start_flight_checkout
    \/ \E c \in 0 .. MaxCtx : get_checkout_status(c)
    \/ \E sid \in {0} \cup DOMAIN sessions : finalize_hotel_checkout(sid)
    \/ stripe_webhook
    \/ \E c \in 0 .. MaxCtx : checkout_post_route(c)
    \/ \E c \in 0 .. MaxCtx : checkout_link_route(c)
    \/ \E c \in 0 .. MaxCtx : flight_checkout_link_route(c)
    \/ Tick
    \/ \E sid \in DOMAIN sessions : UserPays(sid)
    \/ \E sid \in DOMAIN sessions : TamperedSession(sid)
    \/ \E sid \in {0} \cup DOMAIN sessions : success_route(1, sid)
    \/ success_route_quoted(1)
    \/ success_route_booked(1)
    \/ \E sid \in {0} \cup DOMAIN sessions : flight_success_route(1, sid)
    \/ flight_success_route_booked(1)

SpecFlow == Init /\ [][FlowNext]_vars

(* The return callbacks under the event loop's scheduling: a handler       *)
(* suspended at an await is resumed once the awaited call has ended.       *)
LiveNext ==
    \/ start_hotel_checkout
    \/ start_flight_checkout
    \/ \E c \in 0 .. MaxCtx : checkout_link_route(c)
    \/ \E c \in 0 .. MaxCtx : flight_checkout_link_route(c)
    \/ Tick
    \/ \E sid \in DOMAIN sessions : UserPays(sid)
    \/ \E d \in Deliveries, sid \in {0} \cup DOMAIN sessions : success_route(d, sid)
    \/ \E d \in Deliveries : success_route_quoted(d)
    \/ \E d \in Deliveries : success_route_booked(d)
    \/ \E d \in Deliveries, sid \in {0} \cup DOMAIN sessions : flight_success_route(d, sid)
    \/ \E d \in Deliveries : flight_success_route_booked(d)

Resumed ==
    \A d \in Deliveries :
       /\ WF_vars(success_route_quoted(d))
       /\ WF_vars(success_route_booked(d))
       /\ WF_vars(flight_success_route_booked(d))

SpecLive == Init /\ [][LiveNext]_vars /\ Resumed

(* The gates beside a checkout, one beacon of each kind *)
LatchNext ==
    \/ \E k \in GateKinds : trips[k] = 0 /\ widget_block_next(k)
    \/ \E k \in GateKinds : search_ui_call(1, k)
    \/ start_hotel_checkout
    \/ start_flight_checkout
    \/ \E c \in 0 .. MaxCtx : get_checkout_status(c)
    \/ stripe_webhook
    \/ \E c \in 0 .. MaxCtx : checkout_link_route(c)
    \/ \E c \in 0 .. MaxCtx : flight_checkout_link_route(c)
    \/ \E sid \in DOMAIN sessions : UserPays(sid)
    \/ \E sid \in {0} \cup DOMAIN sessions : success_route(1, sid)
    \/ success_route_quoted(1)
    \/ success_route_booked(1)
    \/ \E sid \in {0} \cup DOMAIN sessions : flight_success_route(1, sid)
    \/ flight_success_route_booked(1)

SpecLatch == Init /\ [][LatchNext]_vars

(* Two checkouts side by side *)
PairInit ==
    /\ now = 0
    /\ CHECKOUT_CTX = << >>
    /\ FLIGHT_CHECKOUT_CTX = << >>
    /\ CHECKOUT_STATUS = << >>
    /\ issued = 0
    /\ origin = << >>
    /\ quotes = << >>
    /\ sessions = << >>
    /\ deliveries = [d \in Deliveries |-> IdleDelivery]
    /\ bookingCalls = [c \in 1 .. MaxPairCtx |-> 0]
    /\ reply = NoReply
    /\ GateInit /\ VerifyIdle

PairNext ==
    \/ start_hotel_checkout
    \/ start_flight_checkout
    \/ \E c \in 1 .. MaxPairCtx : get_checkout_status(c)
    \/ \E c \in 1 .. MaxPairCtx : checkout_link_route(c)
    \/ \E c \in 1 .. MaxPairCtx : flight_checkout_link_route(c)
    \/ \E sid \in DOMAIN sessions : UserPays(sid)
    \/ \E d \in Deliveries, sid \in DOMAIN sessions : success_route(d, sid)
    \/ \E d \in Deliveries : success_route_quoted(d)
    \/ \E d \in Deliveries : success_route_booked(d)
    \/ \E d \in Deliveries, sid \in DOMAIN sessions : flight_success_route(d, sid)
    \/ \E d \in Deliveries : flight_success_route_booked(d)

SpecPair == PairInit /\ [][PairNext]_vars

SpecVerify == VerifyInit /\ [][VerifyNext]_vars

(* The exception boundaries, over a range of exceptions *)
BoundaryInit ==
    /\ CheckoutInit /\ GateInit
    /\ vq \in [boundary : Boundaries, e : ExceptionMessages]
    /\ vr = "none"

BoundaryNext == except_Exception

SpecBoundary == BoundaryInit /\ [][BoundaryNext]_vars

---------------------------------------------------------------------------
(* Properties                                                              *)

(* C5: the reconciliation answers Ok exactly when the reported currency is *)
(* the expected currency code and the settled amount is the expected       *)
(* amount in whole minor units (hundredths; whole units for JPY and KRW);  *)
(* 100.00 AUD is Ok against 10000 AUD and Mismatch against 9999 AUD.       *)
SameCurrencyCode(reported, expected) ==
    << reported, expected >> \in
        { << "aud", "AUD" >>, << "AUD", "AUD" >>, << "jpy", "JPY" >>,
          << "krw", "KRW" >>, << "usd", "USD" >> }

InMinorUnits(minor, amt, ccy) ==
    LET perUnit == IF ccy \in {"JPY", "KRW"} THEN 1 ELSE 100
    IN  minor * 1000 <= amt * perUnit /\ amt * perUnit < (minor + 1) * 1000

C5_VerifySettledExact ==
    vr # "none" =>
       /\ vr = "Ok" <=> /\ SameCurrencyCode(vq.ses_ccy, vq.exp_ccy)
                        /\ InMinorUnits(vq.ses_amt, vq.exp_amt, vq.exp_ccy)
       /\ vq.exp_amt = 100000 /\ vq.exp_ccy = "AUD" /\ vq.ses_ccy = "AUD"
             => /\ vq.ses_amt = 10000 => vr = "Ok"
                /\ vq.ses_amt = 9999 => vr = "Mismatch"

C5_Witness ==
    /\ vq = [exp_amt |-> 100000, exp_ccy |-> "AUD", ses_amt |-> 10000, ses_ccy |-> "AUD"]
    /\ vr = "Ok"

(* C6: for each gate kind the searches refused never outnumber the         *)
(* block_next beacons, a beacon leaves the latch set, and a set latch is   *)
(* cleared only by a search call of that kind being refused.               *)
Refused(k) == Cardinality({ s \in Calls : calls[s].kind = k /\ calls[s].skipped })

C6_NoDoubleConsumeNoLostTrip ==
    /\ [](\A k \in GateKinds : Refused(k) <= trips[k])
    /\ [][\A k \in GateKinds :
             /\ trips'[k] > trips[k] => BLOCK_NEXT'[k]
             /\ BLOCK_NEXT[k] /\ ~BLOCK_NEXT'[k] =>
                   \E s \in Calls : /\ calls[s].pc = "idle"
                                    /\ calls'[s].kind = k
                                    /\ calls'[s].skipped]_vars

C6_Witness ==
    \E k \in GateKinds :
       /\ trips[k] = 2
       /\ Refused(k) = 1
       /\ ~BLOCK_NEXT[k]
       /\ \E s \in Calls : calls[s].kind = k /\ calls[s].invoked

(* C7: a search call that reaches the guard while its latch is set clears  *)
(* the latch in that step and ends with the structured refusal (isError,   *)
(* skipped) without the search tool being invoked.                         *)
C7_RefusalSkipsSearch ==
    /\ [](\A s \in Calls : calls[s].skipped =>
             calls[s].isError /\ ~calls[s].invoked /\ calls[s].pc = "done")
    /\ [][\A s \in Calls :
             /\ calls[s].pc = "idle" /\ calls'[s].pc # "idle"
             /\ calls'[s].args = "ok"
             /\ BLOCK_NEXT[calls'[s].kind]
             => /\ ~BLOCK_NEXT'[calls'[s].kind]
                /\ calls'[s].skipped /\ calls'[s].isError
                /\ ~calls'[s].invoked /\ calls'[s].pc = "done"]_vars

C7_Witness ==
    \E s \in Calls :
       /\ calls[s].skipped /\ calls[s].pc = "done"
       /\ ~BLOCK_NEXT[calls[s].kind]
       /\ trips[calls[s].kind] = 1

(* What a delivery's session settled, and whether that is the price p      *)
(* (amount in thousandths, currency code).                                 *)
Settles(sess, amt, ccy) ==
    SameCurrencyCode(sess.currency, ccy) /\ InMinorUnits(sess.amount_total, amt, ccy)

(* The price a delivery has to find settled: the quote named by the        *)
(* session (hotel), the amount of the intent as stored (flight).           *)
HasExpected(dl) ==
    IF dl.route = "hotel"
    THEN sessions[dl.session].quote_id \in DOMAIN quotes
    ELSE dl.ctx_id \in DOMAIN origin /\ "amount" \in DOMAIN origin[dl.ctx_id]

ExpectedAmount(dl) ==
    IF dl.route = "hotel" THEN quotes[sessions[dl.session].quote_id].total_amount
    ELSE origin[dl.ctx_id].amount

ExpectedCurrency(dl) ==
    IF dl.route = "hotel" THEN quotes[sessions[dl.session].quote_id].total_currency
    ELSE origin[dl.ctx_id].currency

PaidAndMatching(dl) ==
    /\ dl.session # 0
    /\ dl.seen_status = "paid"
    /\ HasExpected(dl)
    /\ Settles(sessions[dl.session], ExpectedAmount(dl), ExpectedCurrency(dl))

(* C1: when the paid-and-matching callback of a ctx_id is delivered twice, *)
(* the second after the first was answered, the booking operation is       *)
(* called exactly once for that ctx_id.  (Checked for the deliveries whose *)
(* first one reached the booking call.)                                    *)
C1_SequentialBooksOnce ==
    \A d1, d2 \in Deliveries :
       /\ deliveries[d1].pc = "done" /\ deliveries[d2].pc = "done"
       /\ d1 \in deliveries[d2].after
       /\ deliveries[d1].route = deliveries[d2].route
       /\ deliveries[d1].ctx_id = deliveries[d2].ctx_id
       /\ PaidAndMatching(deliveries[d1]) /\ PaidAndMatching(deliveries[d2])
       /\ deliveries[d1].invoked
       => bookingCalls[deliveries[d1].ctx_id] = 1

(* C2: two callbacks of one ctx_id that overlap (neither began after the   *)
(* other was answered) call the booking operation at most once.            *)
C2_OverlappingBooksOnce ==
    \A d1, d2 \in Deliveries :
       /\ d1 # d2
       /\ deliveries[d1].ctx_id # 0
       /\ deliveries[d1].ctx_id = deliveries[d2].ctx_id
       /\ d1 \notin deliveries[d2].after /\ d2 \notin deliveries[d1].after
       => ~(deliveries[d1].invoked /\ deliveries[d2].invoked)

(* C3: a paid callback that arrives after its ctx_id was finalized (an     *)
(* earlier callback was answered 200: intent removed, status paid) is      *)
(* answered with success, not with an error.                               *)
C3_DuplicateDeliveryIsSuccess ==
    \A d, e \in Deliveries :
       /\ e \in deliveries[d].after
       /\ deliveries[e].code = "200"
       /\ deliveries[e].route = deliveries[d].route
       /\ deliveries[e].ctx_id = deliveries[d].ctx_id
       /\ deliveries[d].seen_status = "paid"
       /\ deliveries[d].pc = "done"
       => deliveries[d].code = "200"

(* C4: a callback calls the booking operation only after it saw its        *)
(* session paid and settled at the expected amount and currency; a         *)
(* callback that saw an unpaid session, or compared and found another      *)
(* amount or currency, is answered 400 without a booking call.             *)
C4_BookingOnlyIfPaidAndMatching ==
    \A d \in Deliveries :
       LET dl == deliveries[d]
       IN  /\ dl.invoked => PaidAndMatching(dl)
           /\ dl.pc = "done" /\ dl.session # 0 /\ dl.seen_status # "paid"
                 => dl.code = "400" /\ ~dl.invoked
           /\ dl.compared /\ ~Settles(sessions[dl.session], dl.exp_amt, dl.exp_ccy)
                 => dl.pc = "done" /\ dl.code = "400" /\ ~dl.invoked

C4_Witness ==
    \E d, e \in Deliveries :
       /\ deliveries[d].invoked /\ deliveries[d].code = "200"
       /\ deliveries[e].compared /\ deliveries[e].seen_status = "paid"
       /\ ~deliveries[e].reconciled /\ deliveries[e].code = "400"

(* C8: two session-build requests for the same intent carry the same       *)
(* idempotency key, so the payment provider holds at most one session made *)
(* for that intent.                                                        *)
C8_OneSessionPerIntent ==
    \A i, j \in DOMAIN sessions :
       /\ ~sessions[i].tampered /\ ~sessions[j].tampered
       /\ sessions[i].ctx_id = sessions[j].ctx_id
       => /\ sessions[i].key # << >>
          /\ sessions[i].key = sessions[j].key
          /\ i = j

(* C9: the checkout link routes.  Within the TTL the intent stays as       *)
(* stored and a session, when one is made, is made from the stored intent; *)
(* beyond the TTL the answer is 410, no quote or session is made and the   *)
(* entry is removed; a removed ctx_id is never stored again.               *)
Aged(c, ttl) == now - origin[c].created_at > ttl

NewSessions == { i \in DOMAIN sessions' : i \notin DOMAIN sessions }

C9_LinkFreshOrExpired ==
    [][\A c \in CtxIds :
          /\ checkout_link_route(c) /\ c \in DOMAIN CHECKOUT_CTX =>
                IF Aged(c, 900)
                THEN /\ reply' = "410"
                     /\ quotes' = quotes /\ sessions' = sessions
                     /\ c \notin DOMAIN CHECKOUT_CTX'
                ELSE /\ reply' \in {"303", "500"}
                     /\ reply' = "303" => NewSessions # {}
                     /\ c \in DOMAIN CHECKOUT_CTX' /\ CHECKOUT_CTX'[c] = origin[c]
                     /\ \A i \in NewSessions :
                           /\ sessions'[i].ctx_id = c
                           /\ sessions'[i].subject = origin[c].rate_id
                           /\ sessions'[i].customer_email = origin[c].email
          /\ flight_checkout_link_route(c) /\ c \in DOMAIN FLIGHT_CHECKOUT_CTX =>
                IF Aged(c, 900)
                THEN /\ reply' = "410"
                     /\ quotes' = quotes /\ sessions' = sessions
                     /\ c \notin DOMAIN FLIGHT_CHECKOUT_CTX'
                ELSE /\ reply' \in {"303", "500"}
                     /\ reply' = "303" => NewSessions # {}
                     /\ c \in DOMAIN FLIGHT_CHECKOUT_CTX'
                     /\ FLIGHT_CHECKOUT_CTX'[c] = origin[c]
                     /\ \A i \in NewSessions :
                           /\ sessions'[i].ctx_id = c
                           /\ sessions'[i].subject = origin[c].offer_id
                           /\ sessions'[i].customer_email = origin[c].email
                           /\ Settles(sessions'[i], origin[c].amount, origin[c].currency)
          /\ c \in DOMAIN origin /\ c \notin DOMAIN CHECKOUT_CTX
                => c \notin DOMAIN CHECKOUT_CTX'
          /\ c \in DOMAIN origin /\ c \notin DOMAIN FLIGHT_CHECKOUT_CTX
                => c \notin DOMAIN FLIGHT_CHECKOUT_CTX']_vars

C9_Witness ==
    /\ reply = "410"
    /\ \E c \in DOMAIN origin :
          /\ c \notin DOMAIN CHECKOUT_CTX /\ c \notin DOMAIN FLIGHT_CHECKOUT_CTX
          /\ CHECKOUT_STATUS[c].status = "pending"
          /\ Aged(c, 900)
          /\ \E i \in DOMAIN sessions : sessions[i].ctx_id = c

(* C10: POST /checkout with the ctx_id of an intent older than its TTL is  *)
(* answered 410 and makes no quote and no session.                         *)
C10_PostRefusesExpired ==
    [][\A c \in CtxIds :
          checkout_post_route(c) /\ c \in DOMAIN CHECKOUT_CTX /\ Aged(c, 900)
             => reply' = "410" /\ quotes' = quotes /\ sessions' = sessions]_vars

(* The stores in which a ctx_id's intent may live.                         *)
Stored(c) == c \in DOMAIN CHECKOUT_CTX \/ c \in DOMAIN FLIGHT_CHECKOUT_CTX

SameCheckout(d, e) ==
    /\ deliveries[d].ctx_id # 0
    /\ deliveries[d].ctx_id = deliveries[e].ctx_id
    /\ deliveries[d].route = deliveries[e].route

(* C11: a callback that arrives when the intent of its ctx_id is older     *)
(* than the TTL calls no booking, does not record paid (is not answered    *)
(* 200), and leaves the intent purged.  (Checked for the callbacks of a    *)
(* paid session on the route of its kind.)                                 *)
C11_ExpiredCallbackPurges ==
    \A d \in Deliveries :
       /\ deliveries[d].stale
       /\ deliveries[d].seen_status = "paid"
       /\ deliveries[d].route = sessions[deliveries[d].session].kind
       => /\ ~deliveries[d].invoked
          /\ deliveries[d].code # "200"
          /\ deliveries[d].pc = "done" => ~Stored(deliveries[d].ctx_id)

(* C12: a Status Tracker entry that is paid is paid in every later state:  *)
(* no start, session build, callback or poll makes it pending again.       *)
C12_PaidNeverReverts ==
    [][\A c \in DOMAIN CHECKOUT_STATUS :
          CHECKOUT_STATUS[c].status = "paid"
             => /\ c \in DOMAIN CHECKOUT_STATUS'
                /\ CHECKOUT_STATUS'[c].status = "paid"]_vars

C12_Witness ==
    \E c \in DOMAIN CHECKOUT_STATUS :
       /\ CHECKOUT_STATUS[c].status = "paid"
       /\ reply = "paid"
       /\ \E d \in Deliveries :
             /\ deliveries[d].ctx_id = c /\ deliveries[d].pc = "done"
             /\ \E e \in deliveries[d].after : deliveries[e].code = "200"

(* C13: get_checkout_status for a non-empty ctx_id without a Status        *)
(* Tracker entry answers status unknown, which is not an error, and        *)
(* changes neither the Status Tracker nor the Context Store.               *)
C13_PollUnknown ==
    [][\A c \in CtxIds :
          get_checkout_status(c) /\ c \notin DOMAIN CHECKOUT_STATUS
             => /\ reply' = "unknown"
                /\ reply' # "isError"
                /\ CHECKOUT_STATUS' = CHECKOUT_STATUS
                /\ CHECKOUT_CTX' = CHECKOUT_CTX
                /\ FLIGHT_CHECKOUT_CTX' = FLIGHT_CHECKOUT_CTX]_vars

C13_Witness ==
    /\ reply = "unknown"
    /\ CHECKOUT_STATUS = << >>

(* C14: a ctx_id whose Status Tracker entry is paid has no intent in the   *)
(* hotel or the flight Context Store.                                      *)
C14_PaidHasNoIntent ==
    \A c \in DOMAIN CHECKOUT_STATUS :
       CHECKOUT_STATUS[c].status = "paid" => ~Stored(c)

C14_Witness ==
    \E c \in DOMAIN CHECKOUT_STATUS :
       /\ CHECKOUT_STATUS[c].status = "paid"
       /\ c \in DOMAIN origin
       /\ ~Stored(c)

(* C15: for every ctx_id at most one callback delivery writes the Status   *)
(* Tracker entry (the write of paid goes with the answer 200).             *)
C15_StatusWrittenOnce ==
    \A c \in CtxIds :
       Cardinality({ d \in Deliveries :
                        deliveries[d].ctx_id = c /\ deliveries[d].code = "200" }) <= 1

(* C16: a ctx_id that has a Status Tracker entry has one in every later    *)
(* state, also after its intent left the Context Store.                    *)
C16_StatusNeverDeleted ==
    [][\A c \in DOMAIN CHECKOUT_STATUS : c \in DOMAIN CHECKOUT_STATUS']_vars

C16_Witness ==
    /\ reply = "410"
    /\ \E c \in DOMAIN CHECKOUT_STATUS : ~Stored(c)
    /\ \E d \in Deliveries : deliveries[d].code = "200"

(* C17: after a callback of a ctx_id found the settled amount or currency  *)
(* different from the expected one, no later callback of that ctx_id calls *)
(* the booking operation or records paid.                                  *)
C17_MismatchIsTerminal ==
    \A d, e \in Deliveries :
       /\ e \in deliveries[d].after
       /\ SameCheckout(d, e)
       /\ deliveries[e].compared /\ ~deliveries[e].reconciled
       => ~deliveries[d].invoked /\ deliveries[d].code # "200"

(* C18: paid is recorded only after a booking that succeeded, and after a  *)
(* booking call that raised the status is neither pending nor paid.        *)
C18_FailedBookingIsNotPaid ==
    /\ \A c \in DOMAIN CHECKOUT_STATUS :
          CHECKOUT_STATUS[c].status = "paid" => CHECKOUT_STATUS[c].booking = "confirmed"
    /\ \A d \in Deliveries :
          deliveries[d].invoked /\ deliveries[d].code = "500"
             => CHECKOUT_STATUS[deliveries[d].ctx_id].status \notin {"pending", "paid"}

(* C19: after a booking call of a ctx_id failed (the callback was answered *)
(* 500 after the call), no later callback of that ctx_id calls the booking *)
(* operation.                                                              *)
C19_NoBookingRetry ==
    \A d, e \in Deliveries :
       /\ e \in deliveries[d].after
       /\ SameCheckout(d, e)
       /\ deliveries[e].invoked /\ deliveries[e].code = "500"
       => ~deliveries[d].invoked

(* C20: a callback that reads a session which is not paid is answered 400  *)
(* at once, calls no booking, and leaves the Context Store and the Status  *)
(* Tracker as they were.                                                   *)
C20_UnpaidLeavesState ==
    [][\A d \in Deliveries, sid \in DOMAIN sessions :
          /\ success_route(d, sid) \/ flight_success_route(d, sid)
          /\ deliveries' # deliveries
          /\ sessions[sid].payment_status # "paid"
          => /\ deliveries'[d].pc = "done" /\ deliveries'[d].code = "400"
             /\ ~deliveries'[d].invoked
             /\ bookingCalls' = bookingCalls
             /\ CHECKOUT_CTX' = CHECKOUT_CTX
             /\ FLIGHT_CHECKOUT_CTX' = FLIGHT_CHECKOUT_CTX
             /\ CHECKOUT_STATUS' = CHECKOUT_STATUS]_vars

C20_Witness ==
    \E d, e \in Deliveries :
       /\ e \in deliveries[d].after
       /\ SameCheckout(d, e)
       /\ deliveries[e].seen_status = "unpaid" /\ deliveries[e].code = "400"
       /\ deliveries[d].seen_status = "paid" /\ deliveries[d].code = "200"
       /\ CHECKOUT_STATUS[deliveries[d].ctx_id].status = "paid"

(* The sessions the session builder asked the payment provider for.        *)
Requested == { i \in DOMAIN sessions : ~sessions[i].tampered }

IsHotelIntent(c)  == c \in DOMAIN origin /\ "rate_id" \in DOMAIN origin[c]
IsFlightIntent(c) == c \in DOMAIN origin /\ "offer_id" \in DOMAIN origin[c]

(* C21: every stored intent that carries a currency and every payment      *)
(* session requested has a currency of the allow-list.                     *)
C21_CurrencyAllowListed ==
    /\ \A c \in DOMAIN FLIGHT_CHECKOUT_CTX :
          FLIGHT_CHECKOUT_CTX[c].currency \in CURRENCY_WHITELIST
    /\ \A i \in Requested : Upper(sessions[i].currency) \in CURRENCY_WHITELIST

(* C22: a payment session is made at the price the travel provider gives   *)
(* in the request that builds it: the quote created in that request        *)
(* (hotel), the offer's price at that moment plus the seats (flight).      *)
C22_PriceOfSameRequest ==
    [][\A c \in CtxIds :
          /\ (checkout_link_route(c) \/ checkout_post_route(c)) /\ IsHotelIntent(c) =>
                \A i \in NewSessions :
                   /\ Len(quotes') = Len(quotes) + 1
                   /\ Settles(sessions'[i], quotes'[Len(quotes')].total_amount,
                              quotes'[Len(quotes')].total_currency)
          /\ flight_checkout_link_route(c) /\ IsFlightIntent(c) =>
                \A i \in NewSessions :
                   Settles(sessions'[i],
                           Round2(OfferPriceAt(now) + origin[c].seat_total),
                           origin[c].currency)]_vars

(* C23: a flight intent's amount is base fare plus seat total (the base    *)
(* fare when no seat is selected), and the session made for it charges     *)
(* that amount in minor units: 100 x the amount for a two-decimal          *)
(* currency, 250.00 + 35.00 AUD giving 28500.                              *)
C23_FlightAmountIsBasePlusSeats ==
    /\ \A c \in DOMAIN FLIGHT_CHECKOUT_CTX :
          LET ctx == FLIGHT_CHECKOUT_CTX[c]
          IN  /\ ctx.amount = ctx.base_amount + ctx.seat_total
              /\ ctx.seat_total = 0 => ctx.amount = ctx.base_amount
    /\ \A i \in Requested :
          sessions[i].kind = "flight" =>
             LET ctx == origin[sessions[i].ctx_id]
             IN  /\ ctx.currency \notin ZERO_DECIMAL
                    => sessions[i].amount_total * 10 = ctx.base_amount + ctx.seat_total
                 /\ ctx.currency = "AUD" /\ ctx.base_amount = 250000
                       /\ ctx.seat_total = 35000
                    => sessions[i].amount_total = 28500

C23_Witness ==
    \E i \in Requested :
       /\ sessions[i].kind = "flight"
       /\ sessions[i].amount_total = 28500
       /\ origin[sessions[i].ctx_id].base_amount = 250000
       /\ origin[sessions[i].ctx_id].seat_total = 35000
       /\ origin[sessions[i].ctx_id].amount = 285000

(* C24: a start call that returns an error leaves the Context Store and    *)
(* the Status Tracker as they were, and every stored intent has its id,    *)
(* a well-formed e-mail, a phone number and a non-empty guest or passenger *)
(* list whose entries carry given and family name.                         *)
Named(people) ==
    /\ people # << >>
    /\ \A i \in DOMAIN people :
          people[i].given_name # "" /\ people[i].family_name # ""

C24_FailedStartStoresNothing ==
    /\ [](/\ \A c \in DOMAIN CHECKOUT_CTX :
                /\ CHECKOUT_CTX[c].rate_id # ""
                /\ CHECKOUT_CTX[c].email = "ann@example.com"
                /\ CHECKOUT_CTX[c].phone_number # ""
                /\ Named(CHECKOUT_CTX[c].guests)
          /\ \A c \in DOMAIN FLIGHT_CHECKOUT_CTX :
                /\ FLIGHT_CHECKOUT_CTX[c].offer_id # ""
                /\ FLIGHT_CHECKOUT_CTX[c].email = "ann@example.com"
                /\ FLIGHT_CHECKOUT_CTX[c].phone_number # ""
                /\ Named(FLIGHT_CHECKOUT_CTX[c].passengers))
    /\ [][(start_hotel_checkout \/ start_flight_checkout) /\ reply' = "isError"
             => /\ CHECKOUT_CTX' = CHECKOUT_CTX
                /\ FLIGHT_CHECKOUT_CTX' = FLIGHT_CHECKOUT_CTX
                /\ CHECKOUT_STATUS' = CHECKOUT_STATUS]_vars

C24_Witness ==
    /\ reply = "isError"
    /\ issued = 0
    /\ CHECKOUT_CTX = << >> /\ FLIGHT_CHECKOUT_CTX = << >> /\ CHECKOUT_STATUS = << >>

(* C25: a session build that fails (quote error, currency outside the      *)
(* allow-list, session creation failure: answer 500) makes no session and  *)
(* leaves the Context Store and the Status Tracker as they were; a quote   *)
(* in a currency outside the allow-list is such a failure.                 *)
C25_FailedBuildLeavesStores ==
    [][\A c \in CtxIds :
          /\ checkout_post_route(c) \/ checkout_link_route(c)
                \/ flight_checkout_link_route(c)
          /\ Stored(c)
          => /\ reply' = "500"
                => /\ sessions' = sessions
                   /\ CHECKOUT_CTX' = CHECKOUT_CTX
                   /\ FLIGHT_CHECKOUT_CTX' = FLIGHT_CHECKOUT_CTX
                   /\ CHECKOUT_STATUS' = CHECKOUT_STATUS
             /\ Len(quotes') > Len(quotes)
                   /\ quotes'[Len(quotes')].total_currency \notin {"AUD"}
                => reply' = "500" /\ sessions' = sessions]_vars

C25_Witness ==
    /\ reply = "303"
    /\ Len(quotes) = 2 /\ Len(sessions) = 1
    /\ quotes[1].total_currency = "JPY"
    /\ sessions[1].ctx_id \in DOMAIN CHECKOUT_CTX

(* C26: a link request with the ctx_id of an intent that has outlived its  *)
(* TTL is answered 410, on every such request.                             *)
C26_ExpiredIsAlways410 ==
    [][\A c \in CtxIds :
          /\ \/ checkout_link_route(c) /\ IsHotelIntent(c)
             \/ flight_checkout_link_route(c) /\ IsFlightIntent(c)
          /\ Aged(c, 900)
          => reply' = "410"]_vars

(* C27: an operation that reports a confirmed hotel booking has found the  *)
(* settled amount and currency equal to the travel provider's price and    *)
(* has called the travel provider's booking operation.                     *)
C27_ConfirmationIsReconciled ==
    /\ [](\A d \in Deliveries :
             deliveries[d].route = "hotel" /\ deliveries[d].code = "200"
                => deliveries[d].reconciled /\ deliveries[d].invoked)
    /\ [][\A sid \in DOMAIN sessions :
             finalize_hotel_checkout(sid) /\ reply' = "confirmed"
                => /\ sessions[sid].quote_id \in DOMAIN quotes
                   /\ Settles(sessions[sid], quotes[sessions[sid].quote_id].total_amount,
                              quotes[sessions[sid].quote_id].total_currency)
                   /\ bookingCalls' # bookingCalls]_vars

(* C28: a block_next beacon sets the latch of its kind, leaves an already  *)
(* set latch as it is, and is answered with success whatever its body; a   *)
(* refusal clears the latch however many beacons came before it, and a     *)
(* call that finds the latch clear goes on to the search.                  *)
C28_TripIdempotent ==
    /\ [][\A k \in GateKinds :
             widget_block_next(k)
                => /\ BLOCK_NEXT'[k]
                   /\ \A j \in GateKinds \ {k} : BLOCK_NEXT'[j] = BLOCK_NEXT[j]
                   /\ BLOCK_NEXT[k] => BLOCK_NEXT' = BLOCK_NEXT
                   /\ reply' = "200"]_vars
    /\ [][\A s \in Calls, k \in GateKinds :
             search_ui_call(s, k) /\ calls'[s].args = "ok"
                => /\ BLOCK_NEXT[k] => calls'[s].skipped /\ ~BLOCK_NEXT'[k]
                   /\ ~BLOCK_NEXT[k] => calls'[s].invoked /\ ~calls'[s].skipped]_vars

C28_Witness ==
    \E k \in GateKinds :
       /\ trips[k] = 2
       /\ ~BLOCK_NEXT[k]
       /\ Cardinality({ s \in Calls : calls[s].kind = k /\ calls[s].skipped }) = 1
       /\ \E s \in Calls : calls[s].kind = k /\ calls[s].invoked

(* C29: POST /stripe/webhook leaves the Context Stores, the Status         *)
(* Tracker and the gate latches as they were and calls no booking.         *)
C29_WebhookChangesNothing ==
    [][stripe_webhook
          => /\ CHECKOUT_CTX' = CHECKOUT_CTX
             /\ FLIGHT_CHECKOUT_CTX' = FLIGHT_CHECKOUT_CTX
             /\ CHECKOUT_STATUS' = CHECKOUT_STATUS
             /\ BLOCK_NEXT' = BLOCK_NEXT
             /\ bookingCalls' = bookingCalls
             /\ deliveries' = deliveries]_vars

C29_Witness ==
    /\ reply = "200"
    /\ \E i \in DOMAIN sessions :
          /\ sessions[i].payment_status = "paid"
          /\ sessions[i].ctx_id \in DOMAIN CHECKOUT_STATUS
          /\ CHECKOUT_STATUS[sessions[i].ctx_id].status = "pending"
          /\ Stored(sessions[i].ctx_id)

(* C30: what the caller is sent after an unexpected exception is the same  *)
(* whatever the exception was: it carries nothing of the exception.        *)
C30_GenericInternalError ==
    vr # "none" => \A e \in ExceptionMessages : vr = ErrorBody(vq.boundary, e)

(* C31: a search call of a kind whose latch is set clears the latch,       *)
(* whatever its arguments.                                                 *)
C31_NextCallClearsLatch ==
    [][\A s \in Calls, k \in GateKinds :
          search_ui_call(s, k) /\ BLOCK_NEXT[k] /\ calls'[s].kind = k
             => ~BLOCK_NEXT'[k]]_vars

(* C33: as long as a ctx_id is in a Context Store its record equals the    *)
(* record written at creation.                                             *)
C33_IntentNeverMutated ==
    /\ \A c \in DOMAIN CHECKOUT_CTX : CHECKOUT_CTX[c] = origin[c]
    /\ \A c \in DOMAIN FLIGHT_CHECKOUT_CTX : FLIGHT_CHECKOUT_CTX[c] = origin[c]

C33_Witness ==
    \E d \in Deliveries :
       /\ deliveries[d].pc = "done" /\ deliveries[d].compared
       /\ Stored(deliveries[d].ctx_id)
       /\ now > origin[deliveries[d].ctx_id].created_at

(* C34: every ctx_id in the hotel or flight Context Store has a Status     *)
(* Tracker entry of the same kind, and a poll of a stored ctx_id is never  *)
(* answered unknown.                                                       *)
C34_StoredIntentHasStatus ==
    /\ [](/\ \A c \in DOMAIN CHECKOUT_CTX :
                c \in DOMAIN CHECKOUT_STATUS /\ CHECKOUT_STATUS[c].type = "hotel"
          /\ \A c \in DOMAIN FLIGHT_CHECKOUT_CTX :
                c \in DOMAIN CHECKOUT_STATUS /\ CHECKOUT_STATUS[c].type = "flight")
    /\ [][\A c \in CtxIds :
             get_checkout_status(c) /\ Stored(c) => reply' # "unknown"]_vars

C34_Witness ==
    /\ reply = "pending"
    /\ \E c \in DOMAIN FLIGHT_CHECKOUT_CTX : CHECKOUT_STATUS[c].type = "flight"

(* C35: an intent leaves its Context Store only in a link request that     *)
(* finds it older than the TTL (answered 410) or in the step of a return   *)
(* callback at which the booking call returned.                            *)
C35_OnlyTwoWaysOut ==
    [][\A c \in CtxIds :
          /\ c \in DOMAIN CHECKOUT_CTX /\ c \notin DOMAIN CHECKOUT_CTX'
                => \/ /\ checkout_link_route(c)
                      /\ Aged(c, CHECKOUT_TTL_SECONDS)
                      /\ reply' = "410"
                   \/ \E d \in Deliveries :
                         /\ success_route_booked(d)
                         /\ deliveries[d].ctx_id = c
                         /\ deliveries[d].pc = "booking"
                         /\ deliveries'[d].code = "200"
          /\ c \in DOMAIN FLIGHT_CHECKOUT_CTX /\ c \notin DOMAIN FLIGHT_CHECKOUT_CTX'
                => \/ /\ flight_checkout_link_route(c)
                      /\ Aged(c, FLIGHT_CHECKOUT_TTL_SECONDS)
                      /\ reply' = "410"
                   \/ \E d \in Deliveries :
                         /\ flight_success_route_booked(d)
                         /\ deliveries[d].ctx_id = c
                         /\ deliveries[d].pc = "booking"
                         /\ deliveries'[d].code = "200"]_vars

C35_Witness ==
    /\ now = MaxTicks * TickSeconds
    /\ reply = "pending"
    /\ \E c \in CtxIds : Stored(c) /\ Aged(c, CHECKOUT_TTL_SECONDS)

(* An intent that was purged for TTL expiry: gone from the store with its  *)
(* status still pending.                                                   *)
Purged(c) ==
    /\ c \in DOMAIN origin
    /\ ~Stored(c)
    /\ CHECKOUT_STATUS[c].status = "pending"

(* A callback of the ctx_id is suspended at its booking call.              *)
InFlight(c) ==
    \E d \in Deliveries : deliveries[d].ctx_id = c /\ deliveries[d].pc = "booking"

(* C37 as stated: once an intent is purged with its status pending, no     *)
(* step changes the Status Tracker entry of its ctx_id.                    *)
C37_PurgedStaysPending ==
    [][\A c \in CtxIds :
          Purged(c) => CHECKOUT_STATUS'[c] = CHECKOUT_STATUS[c]]_vars

(* C37: once an intent is purged with its status pending and no callback   *)
(* of its ctx_id is suspended at its booking call, no step calls the       *)
(* booking operation for the ctx_id, changes its Status Tracker entry or   *)
(* stores it again; a callback that ends is not answered 200 (a paid       *)
(* flight callback is answered 400), and a poll is answered pending.       *)
C37_PurgedNeverBooked ==
    [][\A c \in CtxIds :
          Purged(c) /\ ~InFlight(c)
             => /\ CHECKOUT_STATUS'[c] = CHECKOUT_STATUS[c]
                /\ bookingCalls'[c] = bookingCalls[c]
                /\ c \notin DOMAIN CHECKOUT_CTX'
                /\ c \notin DOMAIN FLIGHT_CHECKOUT_CTX'
                /\ \A d \in Deliveries :
                      /\ deliveries'[d].ctx_id = c => deliveries'[d].pc # "booking"
                      /\ deliveries[d].pc # "done" /\ deliveries'[d].pc = "done"
                            /\ deliveries'[d].ctx_id = c
                         => /\ deliveries'[d].code \in {"400", "500"}
                            /\ deliveries'[d].route = "flight"
                               => deliveries'[d].code = "400"
                /\ get_checkout_status(c) => reply' = "pending"]_vars

C37_Witness ==
    \E d \in Deliveries :
       /\ deliveries[d].pc = "done" /\ deliveries[d].code = "400"
       /\ PaidAndMatching(deliveries[d])
       /\ Purged(deliveries[d].ctx_id)
       /\ bookingCalls[deliveries[d].ctx_id] = 0
       /\ reply = "pending"

(* The callback of delivery d has been delivered for a paid session whose  *)
(* amount and currency match, its intent is stored, and it has not ended.  *)
Delivered(d) ==
    /\ deliveries[d].pc \in {"quote", "booking"}
    /\ PaidAndMatching(deliveries[d])
    /\ Stored(deliveries[d].ctx_id)

(* A provider call of delivery d raised or returned no data, or the intent *)
(* was purged before the callback ended.                                   *)
Thwarted(d) ==
    \/ deliveries[d].code = "500"
    \/ deliveries[d].compared /\ deliveries[d].exp_ccy = ""
    \/ Purged(deliveries[d].ctx_id)

(* C38: a delivered callback of a paid, matching session whose intent is   *)
(* stored leads to the status paid and the intent removed, unless a        *)
(* provider call fails or the intent is purged first.                      *)
C38_PaidCallbackCompletes ==
    \A d \in Deliveries :
       Delivered(d) ~>
          \/ /\ ~Stored(deliveries[d].ctx_id)
             /\ deliveries[d].ctx_id \in DOMAIN CHECKOUT_STATUS
             /\ CHECKOUT_STATUS[deliveries[d].ctx_id].status = "paid"
          \/ Thwarted(d)

C38_Witness ==
    \E d \in Deliveries :
       /\ deliveries[d].pc = "done" /\ deliveries[d].code = "200"
       /\ deliveries[d].route = "hotel"
       /\ PaidAndMatching(deliveries[d])
       /\ ~Stored(deliveries[d].ctx_id)
       /\ CHECKOUT_STATUS[deliveries[d].ctx_id].status = "paid"
       /\ ~Thwarted(d)

C32_LatchesIndependent ==
    /\ [][\A k \in GateKinds :
             BLOCK_NEXT'[k] # BLOCK_NEXT[k]
                => \/ trips'[k] = trips[k] + 1 /\ widget_block_next(k)
                   \/ \E s \in Calls :
                         calls'[s] # calls[s] /\ calls'[s].kind = k
                            /\ search_ui_call(s, k)]_vars
    /\ [][\A s \in Calls :
             calls[s].pc = "idle" /\ calls'[s].pc # "idle"
                => LET k == calls'[s].kind
                   IN  /\ calls'[s].skipped => BLOCK_NEXT[k]
                       /\ ~BLOCK_NEXT[k] /\ calls'[s].args = "ok"
                             => calls'[s].invoked]_vars

C32_Witness ==
    /\ BLOCK_NEXT["hotel"] /\ ~BLOCK_NEXT["flight"] /\ BLOCK_NEXT["room"]
    /\ trips["flight"] = 1
    /\ calls[1].kind = "flight" /\ calls[1].skipped
    /\ \E c \in DOMAIN CHECKOUT_STATUS : CHECKOUT_STATUS[c].status = "paid"
    /\ reply = "paid"

(* What the stores hold for a ctx_id.                                      *)
Entry(c) ==
    << IF c \in DOMAIN CHECKOUT_CTX THEN << CHECKOUT_CTX[c] >> ELSE << >>,
       IF c \in DOMAIN FLIGHT_CHECKOUT_CTX THEN << FLIGHT_CHECKOUT_CTX[c] >> ELSE << >>,
       IF c \in DOMAIN CHECKOUT_STATUS THEN << CHECKOUT_STATUS[c] >> ELSE << >> >>

EntryAfter(c) ==
    << IF c \in DOMAIN CHECKOUT_CTX' THEN << CHECKOUT_CTX'[c] >> ELSE << >>,
       IF c \in DOMAIN FLIGHT_CHECKOUT_CTX' THEN << FLIGHT_CHECKOUT_CTX'[c] >> ELSE << >>,
       IF c \in DOMAIN CHECKOUT_STATUS' THEN << CHECKOUT_STATUS'[c] >> ELSE << >> >>

(* The step is an operation on ctx_id c: the start that mints it, a link   *)
(* request for it, a step of a callback of a session made for it.          *)
StepFor(c) ==
    \/ issued' = c /\ issued # c
    \/ \E d \in Deliveries :
          /\ deliveries'[d] # deliveries[d]
          /\ deliveries'[d].ctx_id = c
    \/ checkout_link_route(c)
    \/ flight_checkout_link_route(c)

(* C36: the intent and the Status Tracker entry of a ctx_id change only in *)
(* a step for that ctx_id, so a step for another ctx_id leaves them as     *)
(* they were; and a callback suspended at an await can resume whatever the *)
(* state of the other checkout.                                            *)
C36_CheckoutsIndependent ==
    /\ [][\A b \in CtxIds : EntryAfter(b) # Entry(b) => StepFor(b)]_vars
    /\ [](\A d \in Deliveries :
             /\ deliveries[d].pc = "quote" => ENABLED success_route_quoted(d)
             /\ deliveries[d].pc = "booking" /\ deliveries[d].route = "hotel"
                   => ENABLED success_route_booked(d)
             /\ deliveries[d].pc = "booking" /\ deliveries[d].route = "flight"
                   => ENABLED flight_success_route_booked(d))

C36_Witness ==
    /\ 1 \in DOMAIN CHECKOUT_STATUS /\ CHECKOUT_STATUS[1].status = "paid"
    /\ 2 \in DOMAIN CHECKOUT_STATUS /\ CHECKOUT_STATUS[2].status = "pending"
    /\ Stored(2) /\ ~Stored(1)
    /\ \E d \in Deliveries : deliveries[d].ctx_id = 2 /\ deliveries[d].pc = "booking"

====
